---- MODULE Spec2Model ----
(***************************************************************************)
(* Context isolation wrappers of any_agent.core.context_aware_wrapper,     *)
(* together with the executor's cancel path that removes entries of the    *)
(* per-context registry.                                                   *)
(*                                                                         *)
(* One agent is upgraded at start-up (upgrade_agent_for_context_isolation) *)
(* and the resulting callable is then invoked from several threads.  Each  *)
(* thread carries a stack of call frames, because an agent handle may call *)
(* the wrapper again from inside its own invocation (the wrapper lock is a *)
(* threading.RLock).                                                       *)
(***************************************************************************)
EXTENDS Integers, Sequences, FiniteSets, TLC

\* ---- bounds of the model ------------------------------------------------
NumThreads == 2
MaxDepth == 2
MaxCalls == 2
MaxUpgrades == 2
MaxTime == 3

\* ---- values --------------------------------------------------------------
None == "<None>"
NoThread == 0
NoHandle == -1
original_agent == 0

Threads == 1..NumThreads
Handles == 0..MaxCalls
\* context ids a caller may pass: absent, empty, or a non-empty string
RawIds == {None, "", "default", "a"}
\* values the agent's session_manager.session_id may hold before any dispatch
InitialSessions == {None, "", "s0"}
\* dictionary keys _handle_generic_call can produce from RawIds
Keys == {"default", "a"}

\* Python truthiness of an Optional[str]
Truthy(v) == v \notin {None, ""}

VARIABLES
    agent_module,     \* keywords occurring in agent.__class__.__module__
    session_manager,  \* "absent" | "none" | "noid" | "present"
    session_id,       \* agent.session_manager.session_id
    constructible,    \* whether agent_class(**kwargs) succeeds for this agent's class
    layers,           \* the wrappers around the agent, innermost first (their handlers)
    marked,           \* whether the outermost object has _context_aware_wrapper
    upgrades,         \* calls of upgrade_agent_for_context_isolation so far
    cancel_result,    \* what the last observed cancel request did to its event queue
    now,              \* the clock the Context Isolation Manager reads
    created_at,       \* per key: ContextRecord.createdAt
    last_accessed,    \* per key: ContextRecord.lastAccessedAt
    a2a_message,      \* the inbound A2A message dictionary of the observed request
    extracted,        \* the context ids read from a2a_message
    lock,             \* wrapper.lock: [owner, count] of the RLock
    context_agents,   \* GenericAgentWrapper.context_agents: Keys -|-> Handles
    call_count,       \* per agent object: number of invocations it has seen
    nextHandle,       \* agent objects constructed so far by agent_class(**kwargs)
    stack,            \* per thread: the frames of its calls in progress
    calls,            \* calls started so far
    factoryCalls,     \* per key: agent_factory() calls since the key was last removed
    message_count,    \* per key: ContextRecord.messageCount (0 when untracked)
    served,           \* per context: invocations made for it since it was last removed
    firstHandle,      \* per key: the agent first bound since the key was last removed
    prevHandle        \* per key: the agent that was bound when the key was last removed

vars == <<agent_module, session_manager, session_id, constructible, layers, marked,
          upgrades, cancel_result, now, created_at, last_accessed, a2a_message,
          extracted, lock, context_agents,
          call_count, nextHandle, stack, calls, message_count, factoryCalls, served,
          firstHandle, prevHandle>>

\* ---- classification and upgrade -------------------------------------------
\* detect_agent_type, lines 104-117: the first keyword found in the module name
detect_agent_type_adk_first(module) ==
    IF "google" \in module \/ "adk" \in module THEN "adk"
    ELSE IF "strands" \in module THEN "strands"
    ELSE IF "langchain" \in module THEN "langchain"
    ELSE IF "crewai" \in module THEN "crewai"
    ELSE "unknown"

detect_agent_type(module) ==
    IF "strands" \in module THEN "strands"
    ELSE IF "google" \in module \/ "adk" \in module THEN "adk"
    ELSE IF "langchain" \in module THEN "langchain"
    ELSE IF "crewai" \in module THEN "crewai"
    ELSE "unknown"

\* the call handler create_context_aware_strands_agent installs
create_context_aware_strands_agent(sm) ==
    IF sm \in {"noid", "present"} THEN "session" ELSE "direct"

\* which callable upgrade_agent_for_context_isolation returns:
\* "unwrapped" (the agent itself), or a wrapper with the named handler
upgrade_agent_for_context_isolation(module, sm) ==
    IF detect_agent_type(module) = "adk" THEN "unwrapped"
    ELSE IF detect_agent_type(module) = "strands"
         THEN create_context_aware_strands_agent(sm)
         ELSE "generic"

handler == upgrade_agent_for_context_isolation(agent_module, session_manager)

\* hasattr(agent.session_manager, "session_id")
HasSessionFieldAlways == TRUE
HasSessionField == session_manager = "present"

\* ---- helpers ----------------------------------------------------------------
Top(t) == stack[t][Len(stack[t])]
SetTop(t, f) == [stack EXCEPT ![t] = [@ EXCEPT ![Len(@)] = f]]
Pop(t) == [stack EXCEPT ![t] = SubSeq(@, 1, Len(@) - 1)]
AtPc(t, pc) == stack[t] # <<>> /\ Top(t).pc = pc

\* line 85-86 of _handle_generic_call
ResolveNoEmpty(raw) == IF raw = None THEN "default" ELSE raw
Resolve(raw) == IF ~Truthy(raw) THEN "default" ELSE raw

\* threading.RLock: free, or already held by the calling thread
LockFreeAlways(t) == TRUE
LockFree(t) == lock.owner \in {NoThread, t}
Acquired(t) == [owner |-> t, count |-> lock.count + 1]
ReleasedKept == lock
Released == IF lock.count <= 1 THEN [owner |-> NoThread, count |-> 0]
            ELSE [owner |-> lock.owner, count |-> lock.count - 1]

NoFrame == [raw |-> None, context_id |-> None, pc |-> "none", agent |-> NoHandle,
            original_session |-> None, swapped |-> FALSE, before |-> None,
            found |-> FALSE, cleaned |-> FALSE, obs |-> 0, exp |-> 0,
            out |-> "none", after |-> None, passed |-> None,
            handle_out |-> "none"]

\* del reg[x]
RemoveAll(reg, x) == <<>>
Remove(reg, x) == [c \in DOMAIN reg \ {x} |-> reg[c]]

\* the object upgrade_agent_for_context_isolation returns for a fresh agent:
\* the agent itself, or one wrapper around it
UpgradedLayers(module, sm) ==
    IF upgrade_agent_for_context_isolation(module, sm) = "unwrapped" THEN <<>>
    ELSE <<upgrade_agent_for_context_isolation(module, sm)>>

NoCancel == [task |-> "none", cid |-> None, msgs |-> <<>>, raised |-> FALSE,
             calls |-> 0]

\* an inbound message dictionary: which containers it has, and the value at
\* each place a context id may sit (None: key absent or null)
NoMessage == [has_message |-> FALSE, has_params |-> FALSE, has_pm |-> FALSE,
              m_camel |-> None, m_snake |-> None, r_camel |-> None,
              r_snake |-> None, pm_camel |-> None, pm_snake |-> None]
NoExtract == [done |-> FALSE, passed |-> None, direct |-> None]

\* no request has been observed, and the manager's clock has not been read
Idle ==
    /\ cancel_result = NoCancel
    /\ now = 0
    /\ created_at = [c \in Keys |-> 0]
    /\ last_accessed = [c \in Keys |-> 0]
    /\ a2a_message = NoMessage
    /\ extracted = NoExtract

\* ---- initial state ------------------------------------------------------------
AgentModules == {{"strands"}, {"langchain"}, {"google", "adk"}}

Init ==
    /\ agent_module \in AgentModules
    /\ session_manager \in {"absent", "none", "noid", "present"}
    /\ session_id \in InitialSessions
    /\ (session_manager # "present" => session_id = None)
    /\ (detect_agent_type(agent_module) # "strands" => session_manager = "absent")
    /\ constructible \in BOOLEAN
    /\ (upgrade_agent_for_context_isolation(agent_module, session_manager)
            # "generic" => constructible)
    /\ layers = UpgradedLayers(agent_module, session_manager)
    /\ marked = (layers # <<>>)
    /\ upgrades = 1
    /\ Idle
    /\ message_count = [c \in Keys |-> 0]
    /\ lock = [owner |-> NoThread, count |-> 0]
    /\ context_agents = <<>>
    /\ call_count = [h \in Handles |-> 0]
    /\ nextHandle = 0
    /\ stack = [t \in Threads |-> <<>>]
    /\ calls = 0
    /\ factoryCalls = [c \in Keys |-> 0]
    /\ served = [c \in Keys |-> 0]
    /\ firstHandle = [c \in Keys |-> NoHandle]
    /\ prevHandle = [c \in Keys |-> NoHandle]

statsVars == <<now, created_at, last_accessed>>
agentVars == <<agent_module, session_manager, constructible, layers, marked,
               upgrades, cancel_result, statsVars, a2a_message, extracted>>
ghostVars == <<factoryCalls, served, firstHandle, prevHandle>>

\* context_aware_agent_call, lines 409-413: the context id goes to the callee
\* only when the callee carries the _context_aware_wrapper mark
passed_context_id(raw) == IF marked THEN raw ELSE None

\* ---- a call of the upgraded agent ------------------------------------------------
\* wrapper(message, context_id=raw): from an idle thread, or from inside the
\* agent invocation the thread is currently running under a wrapper
Dispatch(t, raw) ==
    /\ calls < MaxCalls
    /\ \/ stack[t] = <<>>
       \/ Len(stack[t]) < MaxDepth /\ AtPc(t, "invoking") /\ handler # "unwrapped"
    /\ stack' = [stack EXCEPT ![t] =
                    Append(@, [NoFrame EXCEPT !.raw = raw, !.context_id = raw,
                                              !.passed = passed_context_id(raw),
                                              !.pc = "wait"])]
    /\ calls' = calls + 1
    /\ UNCHANGED <<agentVars, session_id, lock, context_agents, call_count,
                   nextHandle, message_count, ghostVars>>

\* `with self.lock:` of _BaseAgentWrapper.__call__ / GenericAgentWrapper.__call__
TakeLock(t) ==
    /\ LockFree(t)
    /\ lock' = Acquired(t)

\* agent(message, **kwargs) begins on handle h: the handle counts the call
BeginInvoke(t, f, h) ==
    /\ stack' = SetTop(t, [f EXCEPT !.pc = "invoking", !.agent = h,
                                    !.obs = call_count[h],
                                    !.exp = served[Resolve(f.raw)]])
    /\ call_count' = [call_count EXCEPT ![h] = @ + 1]
    /\ served' = [served EXCEPT ![Resolve(f.raw)] = @ + 1]

\* the frame's call ends with outcome out, after its handle ended with ho
\* ("none": the handle was never called), and leaves the session field at sess;
\* a frame that took the wrapper lock releases it on the way out.  The locals
\* of the finished call are dead: only its arguments, the handle it used and
\* the session values around it stay on record for the caller.
Exit(t, ho, out, held, sess) ==
    /\ stack' = SetTop(t, [NoFrame EXCEPT !.pc = "returned", !.out = out,
                                         !.handle_out = ho,
                                         !.raw = Top(t).raw,
                                         !.context_id = Top(t).context_id,
                                         !.agent = Top(t).agent,
                                         !.before = Top(t).before,
                                         !.after = sess])
    /\ lock' = IF held THEN Released ELSE lock
    /\ session_id' = sess

\* ---- _handle_generic_call ---------------------------------------------------------
\* line 88: `if context_id not in context_agents`
NeedsCreateAlways(c) == TRUE
NeedsCreate(c) == c \notin DOMAIN context_agents

\* _create_agent_copy: agent_class(**kwargs), or the original agent when the
\* constructor raises
create_agent_copy(constructed) ==
    IF constructed THEN nextHandle + 1 ELSE original_agent

\* ContextRecord.messageCount: every dispatch through the record adds one, at
\* the lookup and before the handle is invoked
record_dispatch_skip(mc, c) == mc
record_dispatch(mc, c) == [mc EXCEPT ![c] = @ + 1]

\* the wrapper lock is taken; lines 85-88: default the context id, look it up
GenericCheck(t) ==
    /\ AtPc(t, "wait")
    /\ handler = "generic"
    /\ TakeLock(t)
    /\ LET c == Resolve(Top(t).raw) IN
         /\ stack' = SetTop(t, [Top(t) EXCEPT
                     !.context_id = c,
                     !.found = c \in DOMAIN context_agents,
                     !.pc = IF NeedsCreate(c) THEN "create" ELSE "read"])
         /\ message_count' = IF NeedsCreate(c) THEN message_count
                              ELSE record_dispatch(message_count, c)
    /\ UNCHANGED <<agentVars, session_id, context_agents, call_count,
                   nextHandle, calls, ghostVars>>

\* line 89: context_agents[context_id] = agent_factory()
GenericCreate(t) ==
    /\ AtPc(t, "create")
    /\ LET c == Top(t).context_id
           h == create_agent_copy(constructible)
       IN   /\ context_agents' = (c :> h) @@ context_agents
            /\ nextHandle' = IF constructible THEN nextHandle + 1 ELSE nextHandle
            /\ factoryCalls' = [factoryCalls EXCEPT ![c] = @ + 1]
            /\ firstHandle' = [firstHandle EXCEPT
                                 ![c] = IF @ = NoHandle THEN h ELSE @]
            /\ message_count' = record_dispatch([message_count EXCEPT ![c] = 0], c)
    /\ stack' = SetTop(t, [Top(t) EXCEPT !.pc = "read"])
    /\ UNCHANGED <<agentVars, session_id, lock, call_count, calls, served,
                   prevHandle>>

\* lines 92-94: agent = context_agents[context_id]; agent(message) begins.
\* The subscript raises KeyError when the entry is gone.
GenericInvoke(t) ==
    /\ AtPc(t, "read")
    /\ LET c == Top(t).context_id IN
         IF c \in DOMAIN context_agents
         THEN /\ BeginInvoke(t, Top(t), context_agents[c])
              /\ UNCHANGED <<session_id, lock>>
         ELSE /\ Exit(t, "none", "KeyError", TRUE, session_id)
              /\ UNCHANGED <<call_count, served>>
    /\ UNCHANGED <<agentVars, context_agents, nextHandle, calls, message_count,
                   factoryCalls, firstHandle, prevHandle>>

\* ---- _handle_session_managed_call ------------------------------------------------
\* the wrapper lock is taken; lines 46-53: swap the session field to the context id when there is one and
\* the session manager has the field, then call the shared agent
SessionCall(t) ==
    /\ AtPc(t, "wait")
    /\ handler = "session"
    /\ TakeLock(t)
    /\ LET f == [Top(t) EXCEPT !.before = session_id] IN
         IF Truthy(f.context_id) /\ HasSessionField
         THEN /\ session_id' = f.context_id
              /\ BeginInvoke(t, [f EXCEPT !.original_session = session_id,
                                          !.swapped = TRUE], original_agent)
         ELSE /\ session_id' = session_id
              /\ BeginInvoke(t, f, original_agent)
    /\ UNCHANGED <<agentVars, context_agents, nextHandle, calls, message_count,
                   factoryCalls, firstHandle, prevHandle>>

\* lines 55-58: the finally block
RestoreSession(f) ==
    IF f.swapped /\ Truthy(f.original_session) THEN f.original_session
    ELSE session_id

\* ---- _handle_direct_call ------------------------------------------------------------
DirectCall(t) ==
    /\ AtPc(t, "wait")
    /\ handler = "direct"
    /\ TakeLock(t)
    /\ BeginInvoke(t, [Top(t) EXCEPT !.before = session_id], original_agent)
    /\ UNCHANGED <<agentVars, session_id, context_agents, nextHandle, calls,
                   message_count, factoryCalls, firstHandle, prevHandle>>

\* ---- an agent that upgrade returned unwrapped: called as it is, no lock ---------
UnwrappedCall(t) ==
    /\ AtPc(t, "wait")
    /\ handler = "unwrapped"
    /\ BeginInvoke(t, [Top(t) EXCEPT !.before = session_id], original_agent)
    /\ UNCHANGED <<agentVars, session_id, lock, context_agents, nextHandle, calls,
                   message_count, factoryCalls, firstHandle, prevHandle>>

\* ---- the agent's invocation ends: it returned ("ok") or raised ("err") ----------
\* what the caller of the wrapper gets when the handle ended with ho: no handler
\* has an except clause (try/finally at lines 51-58, `with` at 28 and 208), so
\* the handle's exception leaves the wrapper as it is
call_outcome_swallowed(ho) == "ok"
call_outcome(ho) == ho

Return(t) ==
    /\ AtPc(t, "invoking")
    /\ \E ho \in {"ok", "err"} :
         Exit(t, ho, call_outcome(ho), handler # "unwrapped", RestoreSession(Top(t)))
    /\ UNCHANGED <<agentVars, context_agents, call_count, nextHandle, calls,
                   message_count, ghostVars>>

\* the caller has the result (or the exception) of the finished call
Resume(t) ==
    /\ AtPc(t, "returned")
    /\ stack' = Pop(t)
    /\ UNCHANGED <<agentVars, session_id, lock, context_agents, call_count,
                   nextHandle, calls, message_count, ghostVars>>

\* ---- removal of a registry entry --------------------------------------------------
\* frames that looked key x up before it was removed
MarkCleaned(x) ==
    [t \in Threads |->
        [i \in 1..Len(stack[t]) |->
            IF stack[t][i].context_id = x /\ stack[t][i].pc \in {"read", "invoking"}
            THEN [stack[t][i] EXCEPT !.cleaned = TRUE]
            ELSE stack[t][i]]]

Forget(x) ==
    /\ context_agents' = Remove(context_agents, x)
    /\ stack' = MarkCleaned(x)
    /\ factoryCalls' = [factoryCalls EXCEPT ![x] = 0]
    /\ served' = [served EXCEPT ![x] = 0]
    /\ firstHandle' = [firstHandle EXCEPT ![x] = NoHandle]
    /\ message_count' = [message_count EXCEPT ![x] = 0]

TaskStates == {"none", "working", "completed"}

\* ContextAwareStrandsA2AExecutor.cancel, lines 68-76: an active task on a
\* context-aware agent that has context_agents loses the entry of context_id.
\* It runs on the event loop and does not take the wrapper lock.
cancel_removes_any_task(task, cid) ==
    handler = "generic" /\ cid \in DOMAIN context_agents
cancel_removes_never(task, cid) == FALSE
cancel_removes(task, cid) ==
    /\ task = "working"
    /\ handler # "unwrapped"
    /\ handler = "generic"
    /\ cid \in DOMAIN context_agents

cancel(task, cid) ==
    /\ IF cancel_removes(task, cid)
       THEN Forget(cid)
       ELSE UNCHANGED <<context_agents, stack, message_count, factoryCalls, served,
                        firstHandle>>
    /\ UNCHANGED <<agentVars, session_id, lock, call_count, nextHandle, calls, prevHandle>>

\* cleanup(contextId) of the Context Isolation Manager: inside the registry's
\* critical section
cleanup_result(reg, x) == x \in DOMAIN reg
cleanup_registry(reg, x) == Remove(reg, x)

cleanup(x) ==
    /\ lock.owner = NoThread
    /\ IF cleanup_result(context_agents, x)
       THEN /\ Forget(x)
            /\ prevHandle' = [prevHandle EXCEPT ![x] = context_agents[x]]
       ELSE UNCHANGED <<context_agents, stack, message_count, ghostVars>>
    /\ UNCHANGED <<agentVars, session_id, lock, call_count, nextHandle, calls>>

\* ---- specification ----------------------------------------------------------------
Next ==
    \/ \E t \in Threads, raw \in RawIds : Dispatch(t, raw)
    \/ \E t \in Threads : GenericCheck(t)
    \/ \E t \in Threads : GenericCreate(t)
    \/ \E t \in Threads : GenericInvoke(t)
    \/ \E t \in Threads : SessionCall(t)
    \/ \E t \in Threads : DirectCall(t)
    \/ \E t \in Threads : UnwrappedCall(t)
    \/ \E t \in Threads : Return(t)
    \/ \E t \in Threads : Resume(t)
    \/ \E task \in TaskStates, cid \in Keys \cup {None} : cancel(task, cid)
    \/ \E x \in Keys : cleanup(x)

Spec == Init /\ [][Next]_vars

\* the per-context strategy alone: an agent of a framework other than Strands and ADK
InitGeneric == Init /\ handler = "generic"

NextGeneric ==
    \/ \E t \in Threads, raw \in RawIds : Dispatch(t, raw)
    \/ \E t \in Threads : GenericCheck(t)
    \/ \E t \in Threads : GenericCreate(t)
    \/ \E t \in Threads : GenericInvoke(t)
    \/ \E t \in Threads : Return(t)
    \/ \E t \in Threads : Resume(t)
    \/ \E task \in TaskStates, cid \in Keys \cup {None} : cancel(task, cid)
    \/ \E x \in Keys : cleanup(x)

SpecGeneric == InitGeneric /\ [][NextGeneric]_vars

\* the delegated-session strategy alone: a Strands agent with a session manager
InitSession == Init /\ handler = "session"

NextSession ==
    \/ \E t \in Threads, raw \in RawIds : Dispatch(t, raw)
    \/ \E t \in Threads : SessionCall(t)
    \/ \E t \in Threads : Return(t)
    \/ \E t \in Threads : Resume(t)

SpecSession == InitSession /\ [][NextSession]_vars

\* ---- properties ---------------------------------------------------------------------
\* every frame of every call in progress
FrameSet == UNION {{stack[t][i] : i \in 1..Len(stack[t])} : t \in Threads}
DefaultRaws == {None, "", "default"}

\* C1: under the per-context strategy any two distinct context ids of the
\* registry are bound to distinct agent objects, whatever the factory does.
DistinctHandlesPerContext ==
    handler = "generic" =>
        \A a \in DOMAIN context_agents : \A b \in DOMAIN context_agents :
            a # b => context_agents[a] # context_agents[b]

\* C2: no context bleeding behind any wrapper: the handle state a call sees
\* (the handle's call counter when the invocation begins) is decided by the
\* invocations made for the call's own context alone.
NoContextBleeding ==
    handler # "unwrapped" =>
        \A f \in FrameSet : f.pc = "invoking" => f.obs = f.exp

\* C3: reuse. A call that finds a record for its context id, and whose record
\* has not been removed since, runs on the handle first bound to that id; the
\* factory has run once for the id, and the handle's counter already holds the
\* earlier calls on the id.
ReuseSameHandle ==
    \A f \in FrameSet :
        (f.pc = "invoking" /\ f.found /\ ~f.cleaned) =>
            /\ f.agent = firstHandle[f.context_id]
            /\ factoryCalls[f.context_id] = 1
            /\ f.exp >= 1
            /\ f.obs >= f.exp

ReuseWitness ==
    \E t \in Threads :
        /\ AtPc(t, "invoking")
        /\ Top(t).found /\ ~Top(t).cleaned
        /\ Top(t).agent = firstHandle[Top(t).context_id]
        /\ Top(t).agent # original_agent
        /\ Top(t).obs = 1

\* C4: delegated restore. When a call through the delegated-session wrapper is
\* over, returned or raised, the session field holds the value it held when
\* the call began.
DelegatedRestore ==
    handler = "session" =>
        \A f \in FrameSet : f.pc = "returned" => f.after = f.before

\* C5: cleanup idempotence. cleanup(x) of a tracked id returns true and removes
\* the record, a second cleanup(x) returns false and changes nothing, cleanup
\* of an untracked id returns false, and the handle bound to x after a cleanup
\* is another object than the one bound before it.
CleanupIdempotence ==
    \A x \in Keys :
        /\ x \in DOMAIN context_agents =>
              /\ cleanup_result(context_agents, x)
              /\ x \notin DOMAIN cleanup_registry(context_agents, x)
              /\ ~cleanup_result(cleanup_registry(context_agents, x), x)
              /\ cleanup_registry(cleanup_registry(context_agents, x), x)
                    = cleanup_registry(context_agents, x)
        /\ x \notin DOMAIN context_agents => ~cleanup_result(context_agents, x)
        /\ (x \in DOMAIN context_agents /\ prevHandle[x] # NoHandle) =>
              context_agents[x] # prevHandle[x]

\* C6: default context id. Under the per-context strategy a call whose context
\* id is absent or empty is keyed "default": the registry never gets a key for
\* the absent or the empty id, and such a call runs on the very handle bound
\* to "default", like a call that names "default".
DefaultContextId ==
    /\ DOMAIN context_agents \subseteq Keys
    /\ \A f \in FrameSet :
          (f.pc \in {"create", "read", "invoking"} /\ f.raw \in DefaultRaws) =>
              /\ f.context_id = "default"
              /\ (f.pc = "invoking" /\ ~f.cleaned) =>
                    /\ "default" \in DOMAIN context_agents
                    /\ f.agent = context_agents["default"]

DefaultContextWitness ==
    \E t1 \in Threads : \E t2 \in Threads \ {t1} :
        /\ AtPc(t1, "returned")
        /\ Top(t1).raw = "default" /\ Top(t1).out = "ok"
        /\ AtPc(t2, "invoking")
        /\ Top(t2).raw = None /\ Top(t2).found
        /\ Top(t2).agent = Top(t1).agent
        /\ DOMAIN context_agents = {"default"}

\* C7: whatever the interleaving of the threads, the factory has been called
\* exactly once for every context id that has a record and not at all for one
\* that has none, no record of a served context is lost, and every call in
\* progress on a context id runs on the one handle bound to it.
FactoryOncePerContext ==
    \A c \in Keys :
        /\ factoryCalls[c] = IF c \in DOMAIN context_agents THEN 1 ELSE 0
        /\ served[c] >= 1 => c \in DOMAIN context_agents
        /\ \A f \in FrameSet :
              (f.pc = "invoking" /\ f.context_id = c /\ ~f.cleaned) =>
                  /\ c \in DOMAIN context_agents
                  /\ f.agent = context_agents[c]

ConcurrentFirstWitness ==
    \E t1 \in Threads : \E t2 \in Threads \ {t1} :
        /\ AtPc(t1, "invoking")
        /\ ~Top(t1).found /\ Top(t1).context_id = "a"
        /\ AtPc(t2, "wait") /\ Top(t2).raw = "a"
        /\ factoryCalls["a"] = 1

\* C8: removing the record of a context never makes a call in flight on that
\* context fail with a missing registry entry.
RemovalSafe ==
    handler = "generic" =>
        \A f \in FrameSet : f.pc = "returned" => f.out # "KeyError"

\* C9: under the per-context strategy the wrapper lock is released before the
\* handle is invoked: no thread holds it while one of its calls is inside the
\* handle.
InvokeOutsideLock ==
    handler = "generic" =>
        \A t \in Threads :
            (\E i \in 1..Len(stack[t]) : stack[t][i].pc = "invoking") =>
                lock.owner # t

\* C10: under the delegated-session strategy at most one thread is inside the
\* shared handle at any time, and a thread between swap and restore of the
\* session field holds the wrapper lock.
SessionSerialized ==
    handler = "session" =>
        /\ Cardinality({t \in Threads :
              \E i \in 1..Len(stack[t]) : stack[t][i].pc = "invoking"}) <= 1
        /\ \A t \in Threads :
              (\E i \in 1..Len(stack[t]) :
                    stack[t][i].pc = "invoking" /\ stack[t][i].swapped) =>
                  lock.owner = t

SessionSerializedWitness ==
    \E t1 \in Threads : \E t2 \in Threads \ {t1} :
        /\ AtPc(t1, "invoking") /\ Top(t1).swapped
        /\ session_id = Top(t1).context_id
        /\ AtPc(t2, "wait") /\ Truthy(Top(t2).raw)
        /\ lock.owner = t1

\* C11: when building the per-context handle fails during the first dispatch
\* on a context id, the dispatch fails with that error and no record is
\* inserted for the id: an agent whose class cannot be constructed never has a
\* registry entry, never has its handle looked up or invoked, and no dispatch
\* on it returns normally.
FactoryFailurePolicy ==
    (handler = "generic" /\ ~constructible) =>
        /\ DOMAIN context_agents = {}
        /\ \A f \in FrameSet :
              /\ f.pc \notin {"read", "invoking"}
              /\ f.pc = "returned" => f.out # "ok"

\* C12: under every strategy, when the handle raises during a dispatch that
\* same failure reaches the caller (the call does not end as a normal reply),
\* and the step in which the failure leaves the wrapper does not touch the
\* registry: the record and its bound handle stay for the next dispatch.
InvocationFailureReachesCaller ==
    [][\A t \in Threads :
          (/\ AtPc(t, "invoking")
           /\ Len(stack'[t]) = Len(stack[t])
           /\ stack'[t][Len(stack'[t])].pc = "returned"
           /\ stack'[t][Len(stack'[t])].handle_out = "err")
          => /\ stack'[t][Len(stack'[t])].out = "err"
             /\ context_agents' = context_agents]_vars

\* a failed invocation on a context whose record is still bound to the handle
\* that raised, and a later dispatch on that context that found and reuses it
InvocationFailureWitness ==
    /\ handler = "generic"
    /\ \E f \in FrameSet, g \in FrameSet :
          /\ f.pc = "returned" /\ f.handle_out = "err" /\ f.out = "err"
          /\ f.context_id \in DOMAIN context_agents
          /\ context_agents[f.context_id] = f.agent
          /\ g.pc = "invoking" /\ g.found
          /\ g.context_id = f.context_id /\ g.agent = f.agent

\* ---- upgrade_agent_for_context_isolation applied repeatedly ----------------------
\* a fresh agent of any class module, with or without a session manager, is
\* upgraded, and the result is handed to upgrade again
Keywords == {"strands", "google", "adk", "langchain", "crewai"}

\* keywords in the module of the wrapper classes themselves
\* ("any_agent.core.context_aware_wrapper"): none
WrapperModule == {}

\* line 243: hasattr(agent, "_context_aware_wrapper")
AlreadyUpgradedNever == FALSE
AlreadyUpgraded == marked

Upgrade ==
    /\ upgrades < MaxUpgrades
    /\ upgrades' = upgrades + 1
    /\ IF AlreadyUpgraded
       THEN UNCHANGED <<layers, marked>>
       ELSE LET module == IF layers = <<>> THEN agent_module ELSE WrapperModule
                h == upgrade_agent_for_context_isolation(module, session_manager)
            IN  IF h = "unwrapped"
                THEN UNCHANGED <<layers, marked>>
                ELSE /\ layers' = Append(layers, h)
                     /\ marked' = TRUE
    /\ UNCHANGED <<agent_module, session_manager, session_id, constructible,
                   cancel_result, statsVars, a2a_message, extracted, lock,
                   context_agents, call_count, nextHandle,
                   stack, calls, message_count, ghostVars>>

InitUpgrade ==
    /\ agent_module \in SUBSET Keywords
    /\ session_manager \in {"absent", "none", "noid", "present"}
    /\ session_id \in InitialSessions
    /\ (session_manager # "present" => session_id = None)
    /\ constructible \in BOOLEAN
    /\ layers = <<>>
    /\ marked = FALSE
    /\ upgrades = 0
    /\ Idle
    /\ message_count = [c \in Keys |-> 0]
    /\ lock = [owner |-> NoThread, count |-> 0]
    /\ context_agents = <<>>
    /\ call_count = [h \in Handles |-> 0]
    /\ nextHandle = 0
    /\ stack = [t \in Threads |-> <<>>]
    /\ calls = 0
    /\ factoryCalls = [c \in Keys |-> 0]
    /\ served = [c \in Keys |-> 0]
    /\ firstHandle = [c \in Keys |-> NoHandle]
    /\ prevHandle = [c \in Keys |-> NoHandle]

NextUpgrade == Upgrade

SpecUpgrade == InitUpgrade /\ [][NextUpgrade]_vars

\* C13: as stated: the strategy is native-session (no wrapper) whenever the
\* runtime is natively session-aware; otherwise delegated-session exactly when
\* the handle exposes a current-session field; otherwise per-context.
ClassifierRule ==
    upgrades >= 1 =>
        layers = IF "google" \in agent_module \/ "adk" \in agent_module THEN <<>>
                 ELSE IF session_manager = "present" THEN <<"session">>
                 ELSE <<"generic">>

\* C13: amended: the strategy follows the runtime family read from the module
\* name of the agent's class, where a Strands keyword wins over an ADK one:
\* a Strands agent gets the shared-agent wrapper, with the session-swapping
\* handler exactly when it has a session manager that is not None and the
\* lock-only direct handler otherwise; an ADK agent is returned unwrapped; every
\* other agent gets the per-context wrapper, session field or not.
ClassifierByFamily ==
    upgrades >= 1 =>
        /\ "strands" \in agent_module =>
              layers = IF session_manager \in {"noid", "present"}
                       THEN <<"session">> ELSE <<"direct">>
        /\ ("strands" \notin agent_module
              /\ ("google" \in agent_module \/ "adk" \in agent_module)) =>
              layers = <<>>
        /\ agent_module \cap {"strands", "google", "adk"} = {} =>
              layers = <<"generic">>

\* an upgraded agent of another family that has a session field, under the
\* per-context wrapper, and (in another run) a Strands agent without one
ClassifierWitness ==
    /\ upgrades >= 1
    /\ \/ agent_module = {"langchain"} /\ session_manager = "present"
             /\ layers = <<"generic">>
       \/ agent_module = {"strands"} /\ session_manager = "absent"
             /\ layers = <<"direct">>

\* C14: upgrade is idempotent: however often upgrade_agent_for_context_isolation
\* is applied to its own result, the object stays the one the first upgrade
\* returned: the agent itself or the agent inside exactly one wrapper, never a
\* wrapper inside a wrapper.
UpgradeIdempotent ==
    upgrades >= 1 =>
        /\ Len(layers) <= 1
        /\ layers = UpgradedLayers(agent_module, session_manager)

\* a wrapper, and an unwrapped ADK agent, after upgrade was applied to them again
UpgradeTwiceWitness ==
    /\ upgrades >= 2
    /\ \/ Len(layers) = 1 /\ marked
       \/ layers = <<>> /\ "adk" \in agent_module /\ "strands" \notin agent_module

\* C15: a natively session-aware (ADK) agent is returned unwrapped by upgrade,
\* and every dispatch made through context_aware_agent_call hands the context
\* id extracted from the inbound message to the agent's own entry point.
NativePassThrough ==
    handler = "unwrapped" =>
        /\ layers = <<>>
        /\ \A f \in FrameSet : f.pc \in {"wait", "invoking"} => f.passed = f.raw

\* ---- statistics and introspection of the Context Isolation Manager ---------------
list_contexts == DOMAIN context_agents

get_context_stats ==
    [c \in DOMAIN context_agents |-> [message_count |-> message_count[c]]]

\* dispatches that went through the current record of c: those that found or
\* created it and have not invoked its handle yet, and those that did invoke
Through(c) ==
    served[c] + Cardinality({p \in Threads \X (1..MaxDepth + 1) :
                                /\ p[2] <= Len(stack[p[1]])
                                /\ stack[p[1]][p[2]].pc = "read"
                                /\ stack[p[1]][p[2]].context_id = c
                                /\ ~stack[p[1]][p[2]].cleaned})

\* C16: the message count that getStats reports for a tracked context id is
\* the number of dispatches that went through its record since the record was
\* created, failed invocations included, whatever happened on other ids.
MessageCountExact ==
    \A c \in list_contexts : get_context_stats[c].message_count = Through(c)

\* a record that two dispatches went through, one of which failed
MessageCountWitness ==
    /\ "a" \in list_contexts
    /\ get_context_stats["a"].message_count = 2
    /\ \E f \in FrameSet : f.pc = "returned" /\ f.out = "err" /\ f.context_id = "a"

DispatchStep(t) ==
    GenericCheck(t) \/ GenericCreate(t) \/ GenericInvoke(t) \/ Return(t)

\* C18: a dispatch on context a under the per-context strategy leaves every
\* other tracked context b untouched: b keeps its record and its bound handle,
\* and that handle's call counter and b's message count are what they were.
DispatchFrame ==
    [][\A t \in Threads :
          DispatchStep(t) =>
             \A b \in DOMAIN context_agents \ {Resolve(Top(t).raw)} :
                /\ b \in DOMAIN context_agents'
                /\ context_agents'[b] = context_agents[b]
                /\ call_count'[context_agents[b]] = call_count[context_agents[b]]
                /\ message_count'[b] = message_count[b]]_vars

\* ---- the executor's cancel, with its event queue -----------------------------------
\* cancel requests against a quiescent wrapper: every tracked context has had
\* one finished dispatch, and no call is in progress
FinalStates == {"completed", "cancelled", "failed"}
AllTaskStates == {"none", "working"} \cup FinalStates

\* lines 55-80: the message of the first enqueue_event call, as its words
first_message(task) ==
    IF task = "none" THEN <<"No active task to cancel">>
    ELSE IF task \in FinalStates THEN <<"Task already", task, "cannot cancel">>
    ELSE <<"Task", "has been successfully cancelled">>

\* lines 90-94: enqueue_event inside try / except Exception: whether the
\* statement raises when the call fails
guarded_enqueue_unguarded(fails) == fails
guarded_enqueue(fails) == FALSE

\* what reaches the event queue: the first message, or after a failed first
\* call (caught at line 84) the error notice, or nothing when that call fails too
cancel_events(task, fail1, fail2) ==
    IF ~fail1 THEN <<first_message(task)>>
    ELSE IF ~fail2 THEN <<<<"Task cancellation attempted with errors">>>>
    ELSE <<>>

\* whether cancel raises: only the enqueue in the except block is outside the
\* outer try
cancel_raises(fail1, fail2) == fail1 /\ guarded_enqueue(fail2)

CancelRequest(task, cid, fail1, fail2) ==
    /\ IF cancel_removes(task, cid)
       THEN Forget(cid)
       ELSE UNCHANGED <<context_agents, stack, message_count, factoryCalls, served,
                        firstHandle>>
    /\ cancel_result' = [task |-> task, cid |-> cid,
                         msgs |-> cancel_events(task, fail1, fail2),
                         raised |-> cancel_raises(fail1, fail2),
                         calls |-> IF fail1 THEN 2 ELSE 1]
    /\ UNCHANGED <<agent_module, session_manager, constructible, layers, marked,
                   upgrades, statsVars, a2a_message, extracted, session_id, lock,
                   call_count, nextHandle, calls, prevHandle>>

\* the handle bound to c when the contexts of K were dispatched once each,
\* c first when c = first
QuiescentHandle(K, first, c) ==
    IF ~constructible THEN original_agent
    ELSE IF c = first \/ first \notin K THEN 1 ELSE 2

InitCancel ==
    /\ agent_module \in AgentModules
    /\ session_manager \in {"absent", "none", "noid", "present"}
    /\ session_id \in InitialSessions
    /\ (session_manager # "present" => session_id = None)
    /\ (detect_agent_type(agent_module) # "strands" => session_manager = "absent")
    /\ constructible \in BOOLEAN
    /\ (handler # "generic" => constructible)
    /\ layers = UpgradedLayers(agent_module, session_manager)
    /\ marked = (layers # <<>>)
    /\ upgrades = 1
    /\ Idle
    /\ lock = [owner |-> NoThread, count |-> 0]
    /\ stack = [t \in Threads |-> <<>>]
    /\ prevHandle = [c \in Keys |-> NoHandle]
    /\ \E K \in SUBSET Keys, first \in Keys :
          /\ (handler # "generic" => K = {})
          /\ (Cardinality(K) < 2 => first = "a")
          /\ context_agents = [c \in K |-> QuiescentHandle(K, first, c)]
          /\ nextHandle = IF constructible THEN Cardinality(K) ELSE 0
          /\ calls = Cardinality(K)
          /\ call_count = [h \in Handles |->
                Cardinality({c \in K : QuiescentHandle(K, first, c) = h})]
          /\ message_count = [c \in Keys |-> IF c \in K THEN 1 ELSE 0]
          /\ factoryCalls = [c \in Keys |-> IF c \in K THEN 1 ELSE 0]
          /\ served = [c \in Keys |-> IF c \in K THEN 1 ELSE 0]
          /\ firstHandle = [c \in Keys |->
                IF c \in K THEN QuiescentHandle(K, first, c) ELSE NoHandle]

NextCancel ==
    \E task \in AllTaskStates, cid \in Keys \cup {None}, fail1, fail2 \in BOOLEAN :
        CancelRequest(task, cid, fail1, fail2)

SpecCancel == InitCancel /\ [][NextCancel]_vars

\* C19: the executor's cancel never raises: whether or not there is a task,
\* whatever its state, with or without a context id, on a wrapped or an
\* unwrapped agent, and whichever of its enqueue calls fail.
CancelNeverRaises == ~cancel_result.raised

\* a cancel of an active task whose two enqueue calls both failed
CancelBothFailWitness ==
    /\ cancel_result.task = "working"
    /\ cancel_result.calls = 2
    /\ cancel_result.msgs = <<>>
    /\ ~cancel_result.raised

\* C20: cancelling an active task on a context-aware agent removes the
\* registry entry keyed by the request's context id, if there is one, and
\* leaves every other entry as it was: in every state, the cancel of an active
\* task with any context id ends with that id unbound and the rest in place.
\* And a context id without an entry gets one again only by a dispatch that
\* runs the factory for it.
CancelRemovesExactly ==
    /\ [](\A cid \in Keys \cup {None} :
            ENABLED (/\ cancel("working", cid)
                     /\ cid \notin DOMAIN context_agents'
                     /\ \A c \in DOMAIN context_agents \ {cid} :
                           /\ c \in DOMAIN context_agents'
                           /\ context_agents'[c] = context_agents[c]))
    /\ [][\A c \in Keys :
             (c \notin DOMAIN context_agents /\ c \in DOMAIN context_agents') =>
                \E t \in Threads : GenericCreate(t) /\ Top(t).context_id = c]_vars

\* a dispatch on "a" was in progress when its task was cancelled: the entry
\* of "a" is gone and the entry of "default" is still there
CancelRemovesWitness ==
    /\ "a" \notin DOMAIN context_agents
    /\ "default" \in DOMAIN context_agents
    /\ \E f \in FrameSet : f.cleaned /\ f.context_id = "a" /\ f.pc = "invoking"

\* frame i of thread t is inside its handle's invocation and the handle is
\* not itself inside the invocation of a dispatch it issued
HandleRunning(t, i) ==
    /\ stack[t][i].pc = "invoking"
    /\ \A j \in (i + 1)..Len(stack[t]) : stack[t][j].pc # "invoking"

\* C21: as stated: under the delegated-session strategy, throughout the
\* handle's invocation for a dispatch with context id c the shared session
\* field equals c, and no other dispatch changes it before the invocation ends.
SessionFieldThroughout ==
    (handler = "session" /\ HasSessionField) =>
        \A f \in FrameSet :
            (f.pc = "invoking" /\ Truthy(f.raw)) => session_id = f.context_id

\* C21: amended: under the delegated-session strategy the shared session field
\* equals c whenever the handle is running for a dispatch with context id c,
\* that is throughout the invocation except while a dispatch that the handle
\* itself issued on the same thread is inside its own invocation; no dispatch
\* of another thread changes the field before the invocation has ended.
SessionFieldWhileRunning ==
    (handler = "session" /\ HasSessionField) =>
        \A t \in Threads : \A i \in 1..Len(stack[t]) :
            (HandleRunning(t, i) /\ Truthy(stack[t][i].raw)) =>
                session_id = stack[t][i].context_id

\* the handle of a dispatch on "a" has issued a dispatch on "default" that is
\* over, and the field holds "a" again
SessionFieldWitness ==
    /\ handler = "session" /\ HasSessionField
    /\ \E t \in Threads :
          /\ Len(stack[t]) = 2
          /\ stack[t][1].pc = "invoking" /\ stack[t][1].raw = "a"
          /\ stack[t][2].pc = "returned" /\ stack[t][2].raw = "default"
          /\ session_id = "a"

\* C22: under the delegated-session strategy a dispatch whose context id is
\* absent or empty is resolved to "default" before the swap: while its handle
\* runs the session field has been swapped and holds "default", never the
\* value that happened to be current.
DelegatedDefaultResolved ==
    (handler = "session" /\ HasSessionField) =>
        \A t \in Threads : \A i \in 1..Len(stack[t]) :
            (HandleRunning(t, i) /\ ~Truthy(stack[t][i].raw)) =>
                /\ stack[t][i].swapped
                /\ session_id = "default"

\* calls that have been issued and have not got past the wrapper lock yet
Waiting ==
    {p \in Threads \X (1..MaxDepth + 1) :
        p[2] <= Len(stack[p[1]]) /\ stack[p[1]][p[2]].pc = "wait"}

\* C23: degraded case. A dispatch through the wrapper of a Strands agent that
\* has no session field (no session manager, a session manager that is None,
\* or one without a session id) swaps nothing, invokes the handle exactly once,
\* and ends the way the handle ended, for any context id.
DegradedDirectCall ==
    (handler \in {"session", "direct"}
        /\ session_manager \in {"absent", "none", "noid"}) =>
        /\ session_id = None
        /\ \A f \in FrameSet :
              /\ ~f.swapped
              /\ f.pc = "returned" => (f.out = f.handle_out /\ f.out \in {"ok", "err"})
        /\ call_count[original_agent] = calls - Cardinality(Waiting)

\* a finished dispatch with a context id through the session-managed wrapper
\* of an agent whose session manager has no session id
DegradedWitness ==
    /\ handler = "session" /\ session_manager = "noid"
    /\ \E f \in FrameSet : f.pc = "returned" /\ f.raw = "a" /\ f.out = "ok"
    /\ call_count[original_agent] = 1

\* C24: a context record is created only by a dispatch that did not find its
\* context id in the registry; once there, it keeps its bound handle through
\* every step of every dispatch, successful or failed, on any context id; and
\* it leaves the registry only in a cleanup or a cancel of an active task that
\* names its context id.
RecordLifecycle ==
    [][\A c \in Keys :
          /\ (c \notin DOMAIN context_agents /\ c \in DOMAIN context_agents') =>
                \E t \in Threads :
                    GenericCreate(t) /\ Top(t).context_id = c /\ ~Top(t).found
          /\ (c \in DOMAIN context_agents /\ c \in DOMAIN context_agents') =>
                context_agents'[c] = context_agents[c]
          /\ (c \in DOMAIN context_agents /\ c \notin DOMAIN context_agents') =>
                cleanup(c) \/ cancel("working", c)]_vars

\* the record of "a" still has the handle it was created with after a
\* dispatch on it failed and a dispatch on "default" created another record
RecordLifecycleWitness ==
    /\ DOMAIN context_agents = {"a", "default"}
    /\ context_agents["a"] = firstHandle["a"]
    /\ context_agents["a"] # context_agents["default"]
    /\ \E f \in FrameSet : f.pc = "returned" /\ f.context_id = "a" /\ f.out = "err"

\* C26: under the per-context strategy dispatches within one context id are
\* not serialized: while one dispatch on a context id is inside the invocation
\* of the bound handle, a second dispatch on the same id issued by another
\* thread is not held back, it can enter the wrapper and go on to invoke the
\* same handle at the same time.
SameContextNotSerialized ==
    handler = "generic" =>
        \A t1 \in Threads : \A t2 \in Threads \ {t1} :
            (/\ AtPc(t2, "wait")
             /\ \E i \in 1..Len(stack[t1]) :
                    /\ stack[t1][i].pc = "invoking"
                    /\ stack[t1][i].context_id = Resolve(Top(t2).raw)) =>
                ENABLED GenericCheck(t2)

\* ---- the records of the Context Isolation Manager, with their timestamps ---------
\* the clock advances between requests
Tick ==
    /\ now < MaxTime
    /\ now' = now + 1
    /\ UNCHANGED <<agent_module, session_manager, constructible, layers, marked,
                   upgrades, cancel_result, created_at, last_accessed, a2a_message,
                   extracted, session_id, lock, context_agents, call_count,
                   nextHandle, stack, calls, message_count, ghostVars>>

\* ContextRecord.lastAccessedAt: a dispatch through the record stamps it
touch_skip(la, c) == la
touch(la, c) == [la EXCEPT ![c] = now]

\* lookup-or-create of the manager, inside the registry's critical section:
\* resolve the id, create the record at the first dispatch, stamp and count
get_or_create_context(raw) ==
    /\ calls < MaxCalls
    /\ calls' = calls + 1
    /\ LET c == Resolve(raw) IN
         IF c \notin DOMAIN context_agents
         THEN /\ context_agents' = (c :> create_agent_copy(constructible)) @@ context_agents
              /\ nextHandle' = IF constructible THEN nextHandle + 1 ELSE nextHandle
              /\ created_at' = [created_at EXCEPT ![c] = now]
              /\ last_accessed' = touch(last_accessed, c)
              /\ message_count' = record_dispatch([message_count EXCEPT ![c] = 0], c)
              /\ factoryCalls' = [factoryCalls EXCEPT ![c] = @ + 1]
              /\ firstHandle' = [firstHandle EXCEPT
                                   ![c] = create_agent_copy(constructible)]
         ELSE /\ last_accessed' = touch(last_accessed, c)
              /\ message_count' = record_dispatch(message_count, c)
              /\ UNCHANGED <<context_agents, nextHandle, created_at, factoryCalls,
                             firstHandle>>
    /\ UNCHANGED <<agent_module, session_manager, constructible, layers, marked,
                   upgrades, cancel_result, now, a2a_message, extracted, session_id,
                   lock, call_count, stack, served, prevHandle>>

NextStats ==
    \/ Tick
    \/ \E raw \in RawIds : get_or_create_context(raw)
    \/ \E x \in Keys : cleanup(x)

SpecStats == InitGeneric /\ [][NextStats]_vars

\* C25: timestamps of a context record: createdAt is set at creation and does
\* not change while the record lives; lastAccessedAt is never earlier than
\* createdAt and never decreases; and after each dispatch through the record
\* it is the time of that dispatch.
TimestampsOrdered ==
    /\ [](\A c \in DOMAIN context_agents :
             created_at[c] <= last_accessed[c] /\ last_accessed[c] <= now)
    /\ [][\A c \in Keys :
             /\ (c \in DOMAIN context_agents /\ c \in DOMAIN context_agents') =>
                   /\ created_at'[c] = created_at[c]
                   /\ last_accessed'[c] >= last_accessed[c]
             /\ \A raw \in RawIds :
                   (Resolve(raw) = c /\ get_or_create_context(raw)) =>
                       last_accessed'[c] = now]_vars

\* a record created at one time and dispatched through again at a later time
TimestampsWitness ==
    /\ "a" \in DOMAIN context_agents
    /\ created_at["a"] < last_accessed["a"]
    /\ last_accessed["a"] = now
    /\ message_count["a"] = 2

\* C27: a cancel request that finds no active task, or a task already in a
\* final state, leaves the per-context registry as it is, whatever context id
\* it names, and when the event queue takes the message its only effect is the
\* one explanatory message on the queue.
CancelInactiveFrame ==
    \A task \in {"none"} \cup FinalStates, cid \in Keys \cup {None},
       fail1 \in BOOLEAN, fail2 \in BOOLEAN :
        ENABLED (/\ CancelRequest(task, cid, fail1, fail2)
                 /\ context_agents' = context_agents
                 /\ ~fail1 =>
                       /\ cancel_result'.calls = 1
                       /\ cancel_result'.msgs =
                            IF task = "none" THEN <<<<"No active task to cancel">>>>
                            ELSE <<<<"Task already", task, "cannot cancel">>>>)

\* a cancel of a task that had already failed, naming a tracked context: the
\* record is still there and the queue holds the explanation
CancelInactiveWitness ==
    /\ cancel_result.task = "failed"
    /\ cancel_result.cid \in DOMAIN context_agents
    /\ cancel_result.msgs = <<<<"Task already", "failed", "cannot cancel">>>>
    /\ DOMAIN context_agents = Keys

\* C29: the delegated-session lock is re-entrant. A dispatch the handle issues
\* on its own thread from inside a dispatch in flight is not held back by the
\* lock; it runs with the session field set to its own context id; when it has
\* ended the field holds the outer dispatch's context id again; and the value
\* the outer dispatch leaves in the field when it ends is the value the field
\* had before the outer dispatch began.
ReentrantSession ==
    (handler = "session" /\ HasSessionField) =>
        \A t \in Threads :
            Len(stack[t]) >= 2 =>
                LET inner == Top(t)
                    outer == stack[t][Len(stack[t]) - 1]
                IN  /\ inner.pc = "wait" => ENABLED SessionCall(t)
                    /\ (inner.pc = "invoking" /\ Truthy(inner.raw)) =>
                          session_id = inner.context_id
                    /\ (inner.pc = "returned" /\ outer.swapped) =>
                          /\ session_id = outer.context_id
                          /\ RestoreSession(outer) = outer.before

\* ---- progress ---------------------------------------------------------------------
\* every thread that can take a step of a call gets to take it, and every
\* invocation of a handle ends; the callers, cancel and cleanup are free to
\* act or not
ThreadStep(t) ==
    \/ GenericCheck(t)
    \/ GenericCreate(t)
    \/ GenericInvoke(t)
    \/ SessionCall(t)
    \/ DirectCall(t)
    \/ UnwrappedCall(t)
    \/ Return(t)
    \/ Resume(t)

Fairness == \A t \in Threads : WF_vars(ThreadStep(t))

\* the calls alone, without cancel and cleanup
NextCalls ==
    \/ \E t \in Threads, raw \in RawIds : Dispatch(t, raw)
    \/ \E t \in Threads : GenericCheck(t)
    \/ \E t \in Threads : GenericCreate(t)
    \/ \E t \in Threads : GenericInvoke(t)
    \/ \E t \in Threads : SessionCall(t)
    \/ \E t \in Threads : DirectCall(t)
    \/ \E t \in Threads : UnwrappedCall(t)
    \/ \E t \in Threads : Return(t)
    \/ \E t \in Threads : Resume(t)

SpecLive == Init /\ [][NextCalls]_vars /\ Fairness

\* frames of thread t that are inside `with self.lock`
Holding(t) ==
    {i \in 1..Len(stack[t]) :
        handler # "unwrapped" /\ stack[t][i].pc \in {"create", "read", "invoking"}}

\* C28: every dispatch through a wrapper gives the wrapper lock back when it
\* ends, however it ends: the lock is held exactly as many times as its owner
\* has calls inside the wrapper, and by nobody when no call is inside. Hence,
\* as every handle invocation ends, each dispatch waiting for the lock gets it
\* and completes: again and again no thread has a dispatch outstanding, after
\* a failed dispatch as after a successful one.
LockAlwaysReleased ==
    /\ [](\A t \in Threads :
             Cardinality(Holding(t)) = IF lock.owner = t THEN lock.count ELSE 0)
    /\ []<>(\A t \in Threads : stack[t] = <<>>)

\* a dispatch has failed, and another thread's dispatch has taken the lock
\* after it and is inside its handle
LockReleasedWitness ==
    \E t1 \in Threads : \E t2 \in Threads \ {t1} :
        /\ AtPc(t1, "returned") /\ Top(t1).out = "err"
        /\ AtPc(t2, "invoking")
        /\ lock.owner = t2 /\ lock.count = 1


\* ---- the context id of an inbound A2A message ------------------------------------
\* a value that is not a string (a number), and what str() makes of it
NonString == "<int 7>"
str(v) == IF v = NonString THEN "7" ELSE v

\* the values a context id key can hold: missing, empty, an id, a number
IdValues(id) == {None, "", id, NonString}

\* the message dictionaries: a "message" object, root-level keys, a "params"
\* object with or without a "message" object of its own; the keys of an
\* object that is missing are missing
Messages ==
    {d \in [has_message : BOOLEAN, has_params : BOOLEAN, has_pm : BOOLEAN,
            m_camel : IdValues("mc"), m_snake : IdValues("ms"),
            r_camel : IdValues("rc"), r_snake : IdValues("rs"),
            pm_camel : IdValues("pc"), pm_snake : IdValues("ps")] :
        /\ (~d.has_message => d.m_camel = None /\ d.m_snake = None)
        /\ (d.has_pm => d.has_params)
        /\ (~d.has_pm => d.pm_camel = None /\ d.pm_snake = None)}

\* the dictionary has no key at all
IsEmptyDict(d) ==
    /\ ~d.has_message /\ ~d.has_params
    /\ d.r_camel = None /\ d.r_snake = None

\* the six paths in the order of `locations`; a path through a missing key
\* raises KeyError and is skipped, as a missing value is
Locations(d) ==
    << d.m_camel, d.m_snake, d.r_camel, d.r_snake, d.pm_camel, d.pm_snake >>

extract_context_id_from_a2a_message(d) ==
    LET hits == {i \in 1..6 : Truthy(Locations(d)[i])}
    IN  IF hits = {} THEN None
        ELSE str(Locations(d)[CHOOSE i \in hits : \A j \in hits : i <= j])

\* {"message": params["message"]}
NestedMessage(d) ==
    [NoMessage EXCEPT !.has_message = TRUE,
                      !.m_camel = d.pm_camel, !.m_snake = d.pm_snake]

\* the "contextId" entry of the structured data
RECURSIVE extract_structured_message_data_from_a2a(_)
extract_structured_message_data_from_a2a(d) ==
    IF d.has_message
    THEN IF Truthy(d.m_camel) THEN d.m_camel
         ELSE extract_context_id_from_a2a_message(d)
    ELSE IF d.has_params /\ d.has_pm
    THEN extract_structured_message_data_from_a2a(NestedMessage(d))
    ELSE extract_context_id_from_a2a_message(d)

\* context_aware_agent_call up to the call of the agent, which is Dispatch:
\* the context id handed to the agent, next to the one the extraction
\* function gives for the same dictionary
context_aware_agent_call ==
    /\ ~extracted.done
    /\ LET context_id == IF IsEmptyDict(a2a_message) THEN None
                         ELSE extract_structured_message_data_from_a2a(a2a_message)
       IN  extracted' = [done |-> TRUE,
                         passed |-> passed_context_id(context_id),
                         direct |-> extract_context_id_from_a2a_message(a2a_message)]
    /\ UNCHANGED <<agent_module, session_manager, constructible, layers, marked,
                   upgrades, cancel_result, statsVars, a2a_message, session_id,
                   lock, context_agents, call_count, nextHandle, stack, calls,
                   message_count, ghostVars>>

\* an upgraded agent, and a message that has arrived for it
InitExtract ==
    /\ agent_module \in AgentModules
    /\ session_manager \in {"absent", "none", "noid", "present"}
    /\ session_id \in InitialSessions
    /\ (session_manager # "present" => session_id = None)
    /\ (detect_agent_type(agent_module) # "strands" => session_manager = "absent")
    /\ constructible = TRUE
    /\ layers = UpgradedLayers(agent_module, session_manager)
    /\ marked = (layers # <<>>)
    /\ upgrades = 1
    /\ cancel_result = NoCancel
    /\ now = 0
    /\ created_at = [c \in Keys |-> 0]
    /\ last_accessed = [c \in Keys |-> 0]
    /\ a2a_message \in Messages
    /\ extracted = NoExtract
    /\ message_count = [c \in Keys |-> 0]
    /\ lock = [owner |-> NoThread, count |-> 0]
    /\ context_agents = <<>>
    /\ call_count = [h \in Handles |-> 0]
    /\ nextHandle = 0
    /\ stack = [t \in Threads |-> <<>>]
    /\ calls = 0
    /\ factoryCalls = [c \in Keys |-> 0]
    /\ served = [c \in Keys |-> 0]
    /\ firstHandle = [c \in Keys |-> NoHandle]
    /\ prevHandle = [c \in Keys |-> NoHandle]

NextExtract == context_aware_agent_call

SpecExtract == InitExtract /\ [][NextExtract]_vars

\* C30: for every inbound message dictionary, the context id that
\* context_aware_agent_call passes to a context-aware agent is the one
\* extract_context_id_from_a2a_message returns for that dictionary: the first
\* non-empty value in the order message.contextId, message.context_id,
\* contextId, context_id, params.message.contextId, params.message.context_id,
\* and none when none is set
PassedIsExtracted ==
    (extracted.done /\ marked) => extracted.passed = extracted.direct

====
